---- MODULE Spec2Model ----
(***************************************************************************)
(* A model of the Tetris engine of src/game_logic.py (class TetrisGame).   *)
(*                                                                         *)
(* Python lists are 0-based; the sequences below are 1-based.  Board row   *)
(* r and column c of the source are board[r + 1][c + 1] here; offsets      *)
(* (piece_position), rotation indices and row/column numbers that appear   *)
(* in operators keep the 0-based values of the source.                     *)
(***************************************************************************)
EXTENDS Integers, Sequences, FiniteSets

VARIABLES
    board,            \* self.board: 20 rows of 10 cells, each 0 or 1
    score,            \* self.score
    lines_cleared,    \* self.lines_cleared
    level,            \* self.level
    current_piece,    \* self.current_piece, as its 'type'
    next_piece,       \* self.next_piece, as its 'type'
    held_piece,       \* self.held_piece, as its 'type', or None
    piece_position,   \* self.piece_position: [x |-> ..., y |-> ...]
    rotation,         \* self.rotation
    can_hold,         \* self.can_hold
    op,               \* name of the public method called last ("__init__" at first)
    args,             \* the arguments of that call
    ret,              \* what that call returned
    raised,           \* the exception that call raised, or NoError
    game_over,        \* observer: a hard_drop has returned -1
    held_since_spawn, \* observer: hold_piece has returned True since the last spawn
    calls,            \* number of public calls made since the first state
    active_rooms,     \* main.py: active_rooms, room id -> list of connections
    game_states,      \* main.py: the room ids that are keys of game_states
    pc,               \* main.py: where websocket_endpoint is, for each connection
    iter              \* main.py: for each connection, how many elements the for loop
                      \* of its broadcast_to_room has taken from the list

vars == <<board, score, lines_cleared, level, current_piece, next_piece,
          held_piece, piece_position, rotation, can_hold, op, args, ret, raised,
          game_over, held_since_spawn, calls, active_rooms, game_states, pc, iter>>

-----------------------------------------------------------------------------
(* Constants of the source.                                                *)

BOARD_WIDTH == 10
\* a faulty variant of BOARD_HEIGHT: one row too many
BoardHeightTooTall == BOARD_WIDTH + 11
BOARD_HEIGHT == 20

None == "None"
NoError == "NoError"
IndexError == "IndexError"

Kinds == {"I", "O", "T", "S", "Z", "J", "L"}

\* TETROMINOS[k]['rotations']
Rotations(k) ==
    CASE k = "I" -> << << <<1, 1, 1, 1>> >>,
                       << <<1>>, <<1>>, <<1>>, <<1>> >> >>
      [] k = "O" -> << << <<1, 1>>, <<1, 1>> >> >>
      [] k = "T" -> << << <<0, 1, 0>>, <<1, 1, 1>> >>,
                       << <<1, 0>>, <<1, 1>>, <<1, 0>> >>,
                       << <<1, 1, 1>>, <<0, 1, 0>> >>,
                       << <<0, 1>>, <<1, 1>>, <<0, 1>> >> >>
      [] k = "S" -> << << <<0, 1, 1>>, <<1, 1, 0>> >>,
                       << <<1, 0>>, <<1, 1>>, <<0, 1>> >> >>
      [] k = "Z" -> << << <<1, 1, 0>>, <<0, 1, 1>> >>,
                       << <<0, 1>>, <<1, 1>>, <<1, 0>> >> >>
      [] k = "J" -> << << <<1, 0, 0>>, <<1, 1, 1>> >>,
                       << <<1, 1>>, <<1, 0>>, <<1, 0>> >>,
                       << <<1, 1, 1>>, <<0, 0, 1>> >>,
                       << <<0, 1>>, <<0, 1>>, <<1, 1>> >> >>
      [] k = "L" -> << << <<0, 0, 1>>, <<1, 1, 1>> >>,
                       << <<1, 0>>, <<1, 0>>, <<1, 1>> >>,
                       << <<1, 1, 1>>, <<1, 0, 0>> >>,
                       << <<1, 1>>, <<0, 1>>, <<0, 1>> >> >>

\* TETROMINOS[k]['shape']: the unrotated shape
BaseShape(k) ==
    CASE k = "I" -> << <<1, 1, 1, 1>> >>
      [] k = "O" -> << <<1, 1>>, <<1, 1>> >>
      [] k = "T" -> << <<0, 1, 0>>, <<1, 1, 1>> >>
      [] k = "S" -> << <<0, 1, 1>>, <<1, 1, 0>> >>
      [] k = "Z" -> << <<1, 1, 0>>, <<0, 1, 1>> >>
      [] k = "J" -> << <<1, 0, 0>>, <<1, 1, 1>> >>
      [] k = "L" -> << <<0, 0, 1>>, <<1, 1, 1>> >>

\* piece['rotations'][rotation % len(piece['rotations'])]
ShapeOf(k, rot) == Rotations(k)[(rot % Len(Rotations(k))) + 1]

\* [0 for _ in range(BOARD_WIDTH)]
EmptyRow == [c \in 1..BOARD_WIDTH |-> 0]

\* [[0 for _ in range(BOARD_WIDTH)] for _ in range(BOARD_HEIGHT)]
EmptyBoard == [r \in 1..BOARD_HEIGHT |-> EmptyRow]

\* the (row, col) pairs, 0-based, of the cells of a shape that are set
Cells(shape) ==
    {rc \in (0..(Len(shape) - 1)) \X (0..(Len(shape[1]) - 1)) :
        shape[rc[1] + 1][rc[2] + 1] = 1}

\* the spawn offset computed in _spawn_new_piece and in hold_piece
SpawnPosition(k) ==
    [x |-> (BOARD_WIDTH \div 2) - (Len(BaseShape(k)[1]) \div 2), y |-> 0]

-----------------------------------------------------------------------------
(* The methods of TetrisGame, as operators on a record s of its fields.    *)

\* _is_valid_position(piece=None, pos, rotation) for the current piece
_is_valid_position(s, pos, rot) ==
    \A rc \in Cells(ShapeOf(s.current_piece, rot)) :
        LET new_x == pos.x + rc[2]
            new_y == pos.y + rc[1]
        IN  /\ ~(new_x < 0 \/ new_x >= BOARD_WIDTH \/ new_y >= BOARD_HEIGHT)
            /\ ~(new_y >= 0 /\ s.board[new_y + 1][new_x + 1] = 1)

\* a faulty variant of move_piece: the new offset is kept when it is not valid
move_piece_committing(s, dx, dy) ==
    LET new_pos == [x |-> s.piece_position.x + dx, y |-> s.piece_position.y + dy]
    IN  [self |-> [s EXCEPT !.piece_position = new_pos],
         ret |-> _is_valid_position(s, new_pos, s.rotation)]

\* move_piece(dx, dy)
move_piece(s, dx, dy) ==
    LET new_pos == [x |-> s.piece_position.x + dx, y |-> s.piece_position.y + dy]
    IN  IF _is_valid_position(s, new_pos, s.rotation)
        THEN [self |-> [s EXCEPT !.piece_position = new_pos], ret |-> TRUE]
        ELSE [self |-> s, ret |-> FALSE]

\* a faulty variant of WallKicks: each pair of kicks tried right before left
WallKicksRightFirst == <<1, -1, 2, -2>>

\* the wall kicks of rotate_piece, in the order they are tried
WallKicks == <<-1, 1, -2, 2>>

\* a faulty variant of TryKicks: the new rotation is kept when every kick failed
RECURSIVE TryKicksKeepingRotation(_, _, _)
TryKicksKeepingRotation(s, new_rotation, i) ==
    IF i > Len(WallKicks)
    THEN [self |-> [s EXCEPT !.rotation = new_rotation], ret |-> FALSE]
    ELSE LET kick_pos == [x |-> s.piece_position.x + WallKicks[i],
                          y |-> s.piece_position.y]
         IN  IF _is_valid_position(s, kick_pos, new_rotation)
             THEN [self |-> [s EXCEPT !.rotation = new_rotation,
                                      !.piece_position = kick_pos],
                   ret |-> TRUE]
             ELSE TryKicksKeepingRotation(s, new_rotation, i + 1)

\* the loop over the wall kicks in rotate_piece, from the i-th kick on
RECURSIVE TryKicks(_, _, _)
TryKicks(s, new_rotation, i) ==
    IF i > Len(WallKicks)
    THEN [self |-> s, ret |-> FALSE]
    ELSE LET kick_pos == [x |-> s.piece_position.x + WallKicks[i],
                          y |-> s.piece_position.y]
         IN  IF _is_valid_position(s, kick_pos, new_rotation)
             THEN [self |-> [s EXCEPT !.rotation = new_rotation,
                                      !.piece_position = kick_pos],
                   ret |-> TRUE]
             ELSE TryKicks(s, new_rotation, i + 1)

\* rotate_piece()
rotate_piece(s) ==
    LET new_rotation == (s.rotation + 1) % Len(Rotations(s.current_piece))
    IN  IF _is_valid_position(s, s.piece_position, new_rotation)
        THEN [self |-> [s EXCEPT !.rotation = new_rotation], ret |-> TRUE]
        ELSE TryKicks(s, new_rotation, 1)

\* drop_piece()
drop_piece(s) == move_piece(s, 0, 1)

\* "Check if game over" in _spawn_new_piece
SpawnCheck(s) ==
    [self |-> s, ret |-> _is_valid_position(s, s.piece_position, s.rotation)]

\* _spawn_new_piece(); rnd is the kind _generate_random_piece draws
_spawn_new_piece(s, rnd) ==
    SpawnCheck([s EXCEPT !.current_piece = s.next_piece,
                         !.next_piece = rnd,
                         !.rotation = 0,
                         !.can_hold = TRUE,
                         !.piece_position = SpawnPosition(s.next_piece)])

\* all(self.board[row])
RowFull(b, row) == \A c \in DOMAIN b[row + 1] : b[row + 1][c] # 0

\* a faulty variant of DeleteAndInsert: the row inserted has BOARD_HEIGHT cells
DeleteAndInsertTall(b, row) ==
    <<[c \in 1..BOARD_HEIGHT |-> 0]>> \o SubSeq(b, 1, row) \o SubSeq(b, row + 2, Len(b))

\* del self.board[row]; self.board.insert(0, [0 for _ in range(BOARD_WIDTH)])
DeleteAndInsert(b, row) ==
    <<EmptyRow>> \o SubSeq(b, 1, row) \o SubSeq(b, row + 2, Len(b))

\* the largest element of a non-empty set of integers
Max(S) == CHOOSE m \in S : \A n \in S : n <= m

\* for row in sorted(lines_to_clear, reverse=True): the rows are taken from the
\* list computed before the loop, largest first, whatever the loop does to the board
RECURSIVE RemoveLines(_, _)
RemoveLines(b, lines_to_clear) ==
    IF lines_to_clear = {}
    THEN b
    ELSE LET row == Max(lines_to_clear)
         IN  RemoveLines(DeleteAndInsert(b, row), lines_to_clear \ {row})

\* lines_to_clear as the first loop of _clear_lines leaves it
FullRows(b) == {row \in 0..(BOARD_HEIGHT - 1) : RowFull(b, row)}

\* _clear_lines() from its second loop on
ClearRows(b, lines_to_clear) ==
    [board |-> RemoveLines(b, lines_to_clear), ret |-> Cardinality(lines_to_clear)]

\* _clear_lines() on board b: the board afterwards and the value returned
_clear_lines(b) == ClearRows(b, FullRows(b))

\* the loop of _place_piece that writes the current piece into the board
WritePiece(s) ==
    LET cells == Cells(ShapeOf(s.current_piece, s.rotation))
    IN  [r \in DOMAIN s.board |->
            [c \in DOMAIN s.board[r] |->
                IF <<(r - 1) - s.piece_position.y, (c - 1) - s.piece_position.x>> \in cells
                THEN 1
                ELSE s.board[r][c]]]

\* [0, 40, 100, 300, 1200]
PointsTable == <<0, 40, 100, 300, 1200>>

\* a faulty variant of UpdateScore: the points are multiplied by the new level
UpdateScoreAtNewLevel(s, n) ==
    IF n > 0
    THEN [s EXCEPT !.score = @ + PointsTable[n + 1] * (((s.lines_cleared + n) \div 10) + 1),
                   !.lines_cleared = @ + n,
                   !.level = ((s.lines_cleared + n) \div 10) + 1]
    ELSE s

\* a faulty variant of UpdateScore: the level is computed before the lines are added
UpdateScoreLevelFirst(s, n) ==
    IF n > 0
    THEN [s EXCEPT !.score = @ + PointsTable[n + 1] * s.level,
                   !.lines_cleared = @ + n,
                   !.level = (s.lines_cleared \div 10) + 1]
    ELSE s

\* "Update score and level" in _place_piece, after n lines were cleared
UpdateScore(s, n) ==
    IF n > 0
    THEN [s EXCEPT !.score = @ + PointsTable[n + 1] * s.level,
                   !.lines_cleared = @ + n,
                   !.level = ((s.lines_cleared + n) \div 10) + 1]
    ELSE s

\* a faulty variant of SpawnAndReturn: the result of the spawn is ignored
SpawnAndReturnLines(sp, n) ==
    [self |-> sp.self, ret |-> n, raised |-> NoError]

\* "Spawn new piece" in _place_piece, and its return statements
SpawnAndReturn(sp, n) ==
    [self |-> sp.self, ret |-> IF ~sp.ret THEN -1 ELSE n, raised |-> NoError]

\* _place_piece() from the call of _clear_lines on; cl is what _clear_lines gave
PlaceCleared(s, cl, rnd) ==
    IF cl.ret > 0 /\ cl.ret + 1 > Len(PointsTable)
    THEN \* [0, 40, 100, 300, 1200][lines_cleared] raises IndexError
         [self |-> [s EXCEPT !.board = cl.board], ret |-> None, raised |-> IndexError]
    ELSE SpawnAndReturn(
             _spawn_new_piece(UpdateScore([s EXCEPT !.board = cl.board], cl.ret), rnd),
             cl.ret)

\* _place_piece(); rnd is the kind drawn by the spawn that follows
_place_piece(s, rnd) == PlaceCleared(s, _clear_lines(WritePiece(s)), rnd)

\* while self.drop_piece(): drop_distance += 1
\* d is what the call of drop_piece in the loop condition gives
RECURSIVE DropLoop(_, _, _)
DropLoop(s, d, drop_distance) ==
    IF d.ret
    THEN DropLoop(d.self, drop_piece(d.self), drop_distance + 1)
    ELSE [self |-> s, drop_distance |-> drop_distance]

\* a faulty variant of DropBonus: one point for each row dropped
DropBonusSingle(dl) == [dl.self EXCEPT !.score = @ + dl.drop_distance]

\* self.score += drop_distance * 2
DropBonus(dl) == [dl.self EXCEPT !.score = @ + dl.drop_distance * 2]

\* hard_drop()
hard_drop(s, rnd) == _place_piece(DropBonus(DropLoop(s, drop_piece(s), 0)), rnd)

\* a faulty variant of HoldReset: can_hold is left as it is
HoldResetKeepingCanHold(s) ==
    [self |-> [s EXCEPT !.rotation = 0,
                        !.piece_position = SpawnPosition(s.current_piece)],
     ret |-> TRUE]

\* the end of hold_piece, from "self.rotation = 0" on
HoldReset(s) ==
    [self |-> [s EXCEPT !.rotation = 0,
                        !.can_hold = FALSE,
                        !.piece_position = SpawnPosition(s.current_piece)],
     ret |-> TRUE]

\* a faulty variant of hold_piece: the exchange draws a new lookahead as well
hold_piece_drawing(s, rnd) ==
    IF ~s.can_hold
    THEN [self |-> s, ret |-> FALSE]
    ELSE IF s.held_piece = None
         THEN HoldReset([s EXCEPT !.held_piece = s.current_piece,
                                  !.current_piece = s.next_piece,
                                  !.next_piece = rnd])
         ELSE HoldReset([s EXCEPT !.current_piece = s.held_piece,
                                  !.held_piece = s.current_piece,
                                  !.next_piece = rnd])

\* hold_piece(); rnd is the kind drawn when the hold slot is empty
hold_piece(s, rnd) ==
    IF ~s.can_hold
    THEN [self |-> s, ret |-> FALSE]
    ELSE IF s.held_piece = None
         THEN HoldReset([s EXCEPT !.held_piece = s.current_piece,
                                  !.current_piece = s.next_piece,
                                  !.next_piece = rnd])
         ELSE HoldReset([s EXCEPT !.current_piece = s.held_piece,
                                  !.held_piece = s.current_piece])

\* the while loop of get_ghost_position
RECURSIVE GhostLoop(_, _)
GhostLoop(s, ghost_y) ==
    IF ~_is_valid_position(s, [x |-> s.piece_position.x, y |-> ghost_y], s.rotation)
    THEN ghost_y
    ELSE GhostLoop(s, ghost_y + 1)

\* a faulty variant of get_ghost_position: temp_pos is self.piece_position
\* itself, not a copy of it
get_ghost_position_aliasing(s) ==
    [self |-> [s EXCEPT !.piece_position.y = GhostLoop(s, s.piece_position.y)],
     ret |-> <<s.piece_position.x, GhostLoop(s, s.piece_position.y) - 1>>]

\* get_ghost_position()
get_ghost_position(s) ==
    [self |-> s,
     ret |-> <<s.piece_position.x, GhostLoop(s, s.piece_position.y) - 1>>]

\* get_game_state(): the fields of the GameState it builds
get_game_state(s) ==
    [self |-> s,
     ret |-> [board |-> s.board, score |-> s.score,
              lines_cleared |-> s.lines_cleared, level |-> s.level,
              current_piece |-> s.current_piece, next_piece |-> s.next_piece,
              held_piece |-> s.held_piece]]

\* __init__(); first and second are the two kinds drawn
NewGame(first, second) ==
    LET s0 == [board |-> EmptyBoard, score |-> 0, lines_cleared |-> 0, level |-> 1,
               current_piece |-> None, next_piece |-> first, held_piece |-> None,
               piece_position |-> [x |-> 0, y |-> 0], rotation |-> 0,
               can_hold |-> TRUE]
    IN  _spawn_new_piece(s0, second).self

-----------------------------------------------------------------------------
(* Games in progress.  A game is played from __init__ by the methods above: *)
(* kinds are the kinds drawn, in order, and steps are the calls made:       *)
(*   <<"place", n, x>>  rotate_piece() n times, move_piece(-1 or 1, 0)      *)
(*                      until the piece is in column x, then hard_drop()    *)
(*   <<"hold">>         hold_piece()                                        *)
(*   <<"rotate">>       rotate_piece()                                      *)
(*   <<"move", dx, dy>> move_piece(dx, dy)                                  *)
(* Play stops when a hard drop ends the game or raises.                     *)

\* rotate_piece() called n times
RECURSIVE RotateTimes(_, _)
RotateTimes(s, n) == IF n = 0 THEN s ELSE RotateTimes(rotate_piece(s).self, n - 1)

\* move_piece(-1, 0) or move_piece(1, 0) called until the piece is in column x
RECURSIVE MoveToColumn(_, _)

\* after one such call gave m
MovedToColumn(s, m, x) == IF m.ret THEN MoveToColumn(m.self, x) ELSE s

MoveToColumn(s, x) ==
    IF s.piece_position.x = x
    THEN s
    ELSE MovedToColumn(s, move_piece(s, IF s.piece_position.x < x THEN 1 ELSE -1, 0), x)

\* the game after steps i.. of g; k is the index in g.kinds of the next kind to draw
RECURSIVE Run(_, _, _, _)

\* after the hard drop of step i gave h
RunOn(h, g, k, i) ==
    IF h.raised # NoError \/ h.ret = -1
    THEN h.self
    ELSE Run(h.self, g, k + 1, i + 1)

Run(s, g, k, i) ==
    IF i > Len(g.steps)
    THEN s
    ELSE LET step == g.steps[i]
         IN  CASE step[1] = "place" ->
                    RunOn(hard_drop(MoveToColumn(RotateTimes(s, step[2]), step[3]),
                                    g.kinds[k]),
                          g, k, i)
               [] step[1] = "hold" ->
                    Run(hold_piece(s, g.kinds[k]).self, g,
                        IF s.can_hold /\ s.held_piece = None THEN k + 1 ELSE k, i + 1)
               [] step[1] = "rotate" ->
                    Run(rotate_piece(s).self, g, k, i + 1)
               [] step[1] = "move" ->
                    Run(move_piece(s, step[2], step[3]).self, g, k, i + 1)

Play(g) == Run(NewGame(g.kinds[1], g.kinds[2]), g, 3, 1)

\* n copies of the sequence q
RECURSIVE Repeat(_, _)
Repeat(q, n) == IF n = 0 THEN <<>> ELSE q \o Repeat(q, n - 1)

\* an I piece upright in column 8 of an empty board
RightWallGame ==
    [kinds |-> <<"I", "O">>,
     steps |-> <<<<"rotate">>>> \o Repeat(<<<<"move", 1, 0>>>>, 5)]

\* columns 1..4 filled from row 1 down, an I piece at the spawn offset on top of them
TowersGame ==
    [kinds |-> Repeat(<<"I">>, 20) \o <<"O">>,
     steps |-> Repeat(<<<<"place", 1, 1>>, <<"place", 1, 2>>,
                        <<"place", 1, 3>>, <<"place", 1, 4>>>>, 4)
               \o Repeat(<<<<"place", 0, 1>>>>, 3)]

\* column 3 filled from row 4 down, an I piece in play
PillarGame ==
    [kinds |-> Repeat(<<"I">>, 5) \o <<"T">>,
     steps |-> Repeat(<<<<"place", 1, 3>>>>, 4)]

\* row 19 complete but for columns 4 and 5, an O piece in play
SingleGame ==
    [kinds |-> <<"I", "I", "O", "T">>,
     steps |-> <<<<"place", 0, 0>>, <<"place", 0, 6>>>>]

\* rows 18 and 19 complete but for columns 4 and 5, a T piece on top of them,
\* an O piece in play
DoubleGame ==
    [kinds |-> <<"I", "I", "I", "I", "T", "O", "J">>,
     steps |-> <<<<"place", 0, 0>>, <<"place", 0, 6>>, <<"place", 0, 0>>,
                 <<"place", 0, 6>>, <<"place", 0, 0>>>>]

\* rows 17..19 complete but for column 3, row 16 partly filled, an I piece in play
TripleGame ==
    [kinds |-> Repeat(<<"I">>, 6) \o <<"O", "O", "I", "L">>,
     steps |-> <<<<"place", 1, 0>>, <<"place", 1, 1>>, <<"place", 1, 2>>,
                 <<"place", 0, 4>>, <<"place", 0, 4>>, <<"place", 0, 4>>,
                 <<"place", 0, 8>>, <<"place", 0, 8>>>>]

\* two single-row clears that leave the board as it was
TwoClearsKinds == <<"I", "I", "O", "I", "I">>
TwoClearsSteps ==
    <<<<"place", 0, 0>>, <<"place", 0, 4>>, <<"place", 0, 8>>,
      <<"place", 0, 0>>, <<"place", 0, 4>>>>

\* upright I pieces in every column but column 3
WellKinds == Repeat(<<"I">>, 9)
WellSteps ==
    <<<<"place", 1, 0>>, <<"place", 1, 1>>, <<"place", 1, 2>>, <<"place", 1, 4>>,
      <<"place", 1, 5>>, <<"place", 1, 6>>, <<"place", 1, 7>>, <<"place", 1, 8>>,
      <<"place", 1, 9>>>>

\* eight rows cleared one at a time (level 1), then rows 16..19 complete but for
\* column 3, an I piece in play
WellGame ==
    [kinds |-> Repeat(TwoClearsKinds, 4) \o WellKinds \o <<"I", "J">>,
     steps |-> Repeat(TwoClearsSteps, 4) \o WellSteps]

\* the same after ten rows cleared one at a time (level 2)
LevelTwoWellGame ==
    [kinds |-> Repeat(TwoClearsKinds, 5) \o WellKinds \o <<"I", "J">>,
     steps |-> Repeat(TwoClearsSteps, 5) \o WellSteps]

\* rows 8..19 complete but for column 3, then an I piece dropped into column 3:
\* what that clear of four rows leaves, and an I piece in play
FiveGame ==
    [kinds |-> Repeat(WellKinds, 3) \o <<"I", "I", "T">>,
     steps |-> Repeat(WellSteps, 3) \o <<<<"place", 1, 3>>>>]

\* an S piece held, a Z piece placed, an L piece in play
HeldGame ==
    [kinds |-> <<"S", "Z", "L", "J">>,
     steps |-> <<<<"hold">>, <<"place", 0, 4>>>>]

\* a T piece placed, then an I piece held: an O piece in play, hold used up
JustHeldGame ==
    [kinds |-> <<"T", "I", "O", "J">>,
     steps |-> <<<<"place", 0, 4>>, <<"hold">>>>]

GamesInProgress ==
    {RightWallGame, TowersGame, PillarGame, SingleGame, DoubleGame, TripleGame,
     WellGame, LevelTwoWellGame, FiveGame, HeldGame, JustHeldGame}

\* the fresh games: __init__ with every pair of kinds drawn
NewGames == [kinds : Kinds \X Kinds, steps : {<<>>}]

\* the index of the last step of g that calls name, 0 if there is none
LastStep(g, name) ==
    Max({0} \cup {i \in 1..Len(g.steps) : g.steps[i][1] = name})

\* the last hold_piece of g comes after its last spawn
HeldAfterSpawn(g) == LastStep(g, "hold") > LastStep(g, "place")

-----------------------------------------------------------------------------
(* The state machine: one action for each public method of TetrisGame.     *)
(* A behaviour starts in a new game or in one of the games in progress     *)
(* above and makes up to MaxCalls calls.                                   *)

\* how many public calls a behaviour makes after its first state
MaxCalls == 2

\* the number of connections there are
MaxConnections == 3

\* the connections (WebSocket objects)
Connections == 1..MaxConnections

\* the variables of the relay
RelayVars == <<active_rooms, game_states, pc, iter>>

\* no room and no connection: the relay before any request
NoRelay ==
    /\ active_rooms = <<>>
    /\ game_states = {}
    /\ pc = [c \in Connections |-> "absent"]
    /\ iter = [c \in Connections |-> 0]

\* the arguments move_piece is called with
MoveArgs == {<<-1, 0>>, <<1, 0>>, <<0, 1>>, <<0, -1>>}

\* the fields of the game, as the record the operators above work on
Self ==
    [board |-> board, score |-> score, lines_cleared |-> lines_cleared,
     level |-> level, current_piece |-> current_piece, next_piece |-> next_piece,
     held_piece |-> held_piece, piece_position |-> piece_position,
     rotation |-> rotation, can_hold |-> can_hold]

\* the fields of the game are those of s
Is(s) ==
    /\ board = s.board
    /\ score = s.score
    /\ lines_cleared = s.lines_cleared
    /\ level = s.level
    /\ current_piece = s.current_piece
    /\ next_piece = s.next_piece
    /\ held_piece = s.held_piece
    /\ piece_position = s.piece_position
    /\ rotation = s.rotation
    /\ can_hold = s.can_hold

\* the fields of the game become those of s
Becomes(s) ==
    /\ board' = s.board
    /\ score' = s.score
    /\ lines_cleared' = s.lines_cleared
    /\ level' = s.level
    /\ current_piece' = s.current_piece
    /\ next_piece' = s.next_piece
    /\ held_piece' = s.held_piece
    /\ piece_position' = s.piece_position
    /\ rotation' = s.rotation
    /\ can_hold' = s.can_hold

\* a call of move_piece with the arguments a that gave r
MovePieceReturns(a, r) ==
    /\ calls < MaxCalls
    /\ UNCHANGED RelayVars
    /\ Becomes(r.self)
    /\ op' = "move_piece"
    /\ args' = a
    /\ ret' = r.ret
    /\ raised' = NoError
    /\ UNCHANGED <<game_over, held_since_spawn>>
    /\ calls' = calls + 1

\* a call of a method name that takes no arguments, other than hard_drop and
\* hold_piece, that gave r
Returns(name, r) ==
    /\ calls < MaxCalls
    /\ UNCHANGED RelayVars
    /\ Becomes(r.self)
    /\ op' = name
    /\ args' = <<>>
    /\ ret' = r.ret
    /\ raised' = NoError
    /\ UNCHANGED <<game_over, held_since_spawn>>
    /\ calls' = calls + 1

\* a call of hard_drop that gave r
HardDropReturns(r) ==
    /\ calls < MaxCalls
    /\ UNCHANGED RelayVars
    /\ Becomes(r.self)
    /\ op' = "hard_drop"
    /\ args' = <<>>
    /\ ret' = r.ret
    /\ raised' = r.raised
    /\ game_over' = (game_over \/ (r.raised = NoError /\ r.ret = -1))
    /\ held_since_spawn' = (held_since_spawn /\ r.raised # NoError)
    /\ calls' = calls + 1

\* a call of hold_piece that gave r
HoldPieceReturns(r) ==
    /\ calls < MaxCalls
    /\ UNCHANGED RelayVars
    /\ Becomes(r.self)
    /\ op' = "hold_piece"
    /\ args' = <<>>
    /\ ret' = r.ret
    /\ raised' = NoError
    /\ game_over' = game_over
    /\ held_since_spawn' = (held_since_spawn \/ r.ret)
    /\ calls' = calls + 1

Init ==
    /\ \E g \in NewGames \cup GamesInProgress :
          /\ Is(Play(g))
          /\ held_since_spawn = HeldAfterSpawn(g)
    /\ op = "__init__"
    /\ args = <<>>
    /\ ret = None
    /\ raised = NoError
    /\ game_over = FALSE
    /\ calls = 0
    /\ NoRelay

MovePiece == \E a \in MoveArgs : MovePieceReturns(a, move_piece(Self, a[1], a[2]))

RotatePiece == Returns("rotate_piece", rotate_piece(Self))

DropPiece == Returns("drop_piece", drop_piece(Self))

HardDrop == \E rnd \in Kinds : HardDropReturns(hard_drop(Self, rnd))

HoldPiece == \E rnd \in Kinds : HoldPieceReturns(hold_piece(Self, rnd))

GetGhostPosition == Returns("get_ghost_position", get_ghost_position(Self))

GetGameState == Returns("get_game_state", get_game_state(Self))

Next ==
    \/ MovePiece
    \/ RotatePiece
    \/ DropPiece
    \/ HardDrop
    \/ HoldPiece
    \/ GetGhostPosition
    \/ GetGameState

Spec == Init /\ [][Next]_vars

-----------------------------------------------------------------------------
(* What the properties below are stated with.  These definitions say what  *)
(* the specification of the engine says, in terms of the catalog of shapes *)
(* and of the variables; but for the line clear in C5, they do not use the  *)
(* operators that model the methods.                                       *)

\* the fields of the game
GameVars == <<board, score, lines_cleared, level, current_piece, next_piece,
              held_piece, piece_position, rotation, can_hold>>

\* this step is a call of method name
Call(name) == calls' = calls + 1 /\ op' = name

\* the number of rotation states of kind k
RotationCount(k) ==
    CASE k \in {"I", "S", "Z"} -> 2
      [] k = "O" -> 1
      [] k \in {"T", "J", "L"} -> 4

\* the number of columns of kind k at rotation 0
WidthOf(k) ==
    CASE k = "I" -> 4
      [] k = "O" -> 2
      [] k \in {"T", "S", "Z", "J", "L"} -> 3

\* the offset a piece of kind k is spawned at
SpawnOffset(k) == [x |-> 5 - (WidthOf(k) \div 2), y |-> 0]

\* the board cells <<x, y>> covered by a piece of kind k at rotation rot and offset (x, y)
PieceCells(k, rot, x, y) ==
    {<<x + rc[2], y + rc[1]>> : rc \in Cells(ShapeOf(k, rot))}

\* a piece of kind k at rotation rot and offset (x, y) is in a valid position on b
Fits(b, k, rot, x, y) ==
    \A c \in PieceCells(k, rot, x, y) :
        /\ 0 <= c[1]
        /\ c[1] < 10
        /\ c[2] < 20
        /\ (c[2] >= 0 => b[c[2] + 1][c[1] + 1] = 0)

\* the smallest element of a non-empty set of integers
Min(S) == CHOOSE m \in S : \A n \in S : m <= n

\* the number of consecutive valid one-row steps down of the current piece:
\* the first k for which the step after the k-th is not valid
DropSteps ==
    Min({k \in 0..(20 - piece_position.y) :
            ~Fits(board, current_piece, rotation, piece_position.x,
                  piece_position.y + k + 1)})

\* board b with the cells written into it
WithCells(b, cells) ==
    [r \in 1..20 |-> [c \in 1..10 |->
        IF <<c - 1, r - 1>> \in cells THEN 1 ELSE b[r][c]]]

\* the board with the current piece written into it k rows down
LandedAt(k) ==
    WithCells(board, PieceCells(current_piece, rotation, piece_position.x,
                                piece_position.y + k))

\* the board with the current piece written into it DropSteps rows down
Landed == LandedAt(DropSteps)

\* every cell of the row is occupied
IsFull(row) == \A c \in 1..10 : row[c] = 1

NotFull(row) == ~IsFull(row)

\* the number of full rows of b
FullCount(b) == Cardinality({r \in 1..Len(b) : IsFull(b[r])})

\* b without its full rows, as many empty rows put on top
Compacted(b) == [i \in 1..FullCount(b) |-> EmptyRow] \o SelectSeq(b, NotFull)

\* the points for n rows cleared at once, at level 1
Points(n) ==
    CASE n = 0 -> 0
      [] n = 1 -> 40
      [] n = 2 -> 100
      [] n = 3 -> 300
      [] n = 4 -> 1200

\* the candidate kicks of a rotation, in the order they are to be tried
Candidates == <<0, -1, 1, -2, 2>>

\* the rotation index a rotation of the current piece leads to
NextRotation == (rotation + 1) % RotationCount(current_piece)

\* the indices of the candidates at which the rotated current piece is valid
ValidCandidates ==
    {i \in 1..Len(Candidates) :
        Fits(board, current_piece, NextRotation,
             piece_position.x + Candidates[i], piece_position.y)}

\* an empty board but for an I piece lying in row 19 under its spawn offset
IDroppedBoard == [EmptyBoard EXCEPT ![20] = <<0, 0, 0, 1, 1, 1, 1, 0, 0, 0>>]

-----------------------------------------------------------------------------
(* The properties.                                                         *)

\* C1: after any sequence of calls of the public methods the board has exactly
\* 20 rows and every row has exactly 10 cells.
C1_BoardDimensions ==
    /\ Len(board) = 20
    /\ \A r \in 1..Len(board) : Len(board[r]) = 10

\* a hard drop has cleared four rows at once
C1_Witness ==
    /\ op = "hard_drop"
    /\ raised = NoError
    /\ ret = 4
    /\ C1_BoardDimensions

\* what C2 says of a hard drop whose piece gives the board landed
C2_After(landed) ==
    /\ board' = Compacted(landed)
    /\ (raised' = NoError => ret' \in {FullCount(landed), -1})

\* C2: the line clear of a placement returns the number k of full rows, and the
\* board afterwards is k empty rows followed by the rows that were not full, in
\* their order.
C2_ClearLinesCompacts == [][Call("hard_drop") => C2_After(Landed)]_vars

\* what C3 says of a hard drop of k rows that fills n rows
C3_After(k, n) ==
    /\ n <= 4
    /\ ret' \in {n, -1}
    /\ score' = score + 2 * k + Points(n) * level
    /\ (n = 4 /\ level = 1 => score' = score + 2 * k + 1200)
    /\ (n = 4 /\ level = 2 => score' = score + 2 * k + 2400)
    /\ (n = 0 => score' = score + 2 * k)

\* C3: a placement that clears n rows, 0 <= n <= 4, at level L adds
\* [0, 40, 100, 300, 1200][n] * L to the score on top of the hard-drop bonus,
\* L being the level before the placement.
C3_LineClearScore ==
    [][(Call("hard_drop") /\ raised' = NoError) =>
          C3_After(DropSteps, FullCount(Landed))]_vars

\* four rows cleared at level 2: 2400 points and the bonus of 16 rows dropped
C3_Witness ==
    /\ op = "hard_drop"
    /\ raised = NoError
    /\ ret = 4
    /\ lines_cleared = 14
    /\ score = 1628 + 32 + 2400

\* what C4 says of a hard drop of k rows whose piece gives the board landed;
\* what becomes of a board with several full rows is the matter of C2
C4_After(k, landed) ==
    /\ \A j \in 1..k :
          Fits(board, current_piece, rotation, piece_position.x, piece_position.y + j)
    /\ ~Fits(board, current_piece, rotation, piece_position.x, piece_position.y + k + 1)
    /\ (FullCount(landed) <= 1 => board' = Compacted(landed))
    /\ (FullCount(landed) = 0 => board' = landed /\ score' = score + 2 * k)
    /\ score' >= score + 2 * k
    /\ (/\ board = EmptyBoard
        /\ current_piece = "I"
        /\ rotation = 0
        /\ piece_position = [x |-> 3, y |-> 0]
        => /\ raised' = NoError
           /\ ret' = 0
           /\ score' = score + 38
           /\ board' = IDroppedBoard)

\* C4: hard_drop moves the current piece down by the number k of consecutive
\* valid one-row steps, adds 2 * k to the score and writes the piece into the
\* board there; an I piece dropped from its spawn offset on an empty board ends
\* in row 19, with 0 returned and 38 added to the score.
C4_HardDrop == [][Call("hard_drop") => C4_After(DropSteps, LandedAt(DropSteps))]_vars

\* the I piece of a new game has been hard-dropped
C4_Witness ==
    /\ op = "hard_drop"
    /\ raised = NoError
    /\ ret = 0
    /\ score = 38
    /\ board = IDroppedBoard

\* what C5 says of a hard drop whose placement and line clear give the board
\* placed
C5_After(placed) ==
    ~Fits(placed, next_piece, 0, SpawnOffset(next_piece).x, SpawnOffset(next_piece).y)
    => /\ ret' = -1
       /\ board' = placed
       /\ current_piece' = next_piece

\* C5: when the piece spawned after a placement overlaps an occupied cell at
\* its spawn offset, hard_drop returns -1 without raising, and the board is the
\* one the placement and its line clear produced.
C5_GameOverSignal ==
    [][(Call("hard_drop") /\ raised' = NoError) =>
          C5_After(_clear_lines(Landed).board)]_vars

\* a hard drop has returned the game-over signal
C5_Witness ==
    /\ op = "hard_drop"
    /\ raised = NoError
    /\ ret = -1
    /\ ~Fits(board, current_piece, rotation, piece_position.x, piece_position.y)

\* C6: once hard_drop has returned -1, every later call leaves the fields of
\* the game unchanged and every later hard_drop returns -1.
C6_GameOverTerminal ==
    [][game_over =>
          /\ UNCHANGED GameVars
          /\ (op' = "hard_drop" => raised' = NoError /\ ret' = -1)]_vars

\* C7: hold_piece succeeds at most once between two spawns: it fails and
\* changes nothing when it has succeeded since the last spawn, whatever was
\* called in between, and it succeeds otherwise.
C7_HoldOncePerSpawn ==
    [][Call("hold_piece") =>
          /\ ret' = ~held_since_spawn
          /\ (held_since_spawn => UNCHANGED GameVars)]_vars

\* hold_piece has failed two calls after a hold_piece that succeeded
C7_Witness ==
    /\ op = "hold_piece"
    /\ ret = FALSE
    /\ held_since_spawn
    /\ calls = 2

\* C8: a successful hold_piece with an empty slot holds the current kind,
\* promotes the lookahead and draws a new one; with a filled slot it exchanges
\* the current and the held kind and keeps the lookahead.  Either way the
\* rotation is 0, the offset is the spawn offset of the new current piece, and
\* board, score, lines cleared and level are unchanged.  A filled slot is never
\* emptied.
C8_HoldEffect ==
    [][/\ (Call("hold_piece") /\ ret' = TRUE) =>
             /\ IF held_piece = None
                THEN /\ held_piece' = current_piece
                     /\ current_piece' = next_piece
                     /\ next_piece' \in Kinds
                ELSE /\ held_piece' = current_piece
                     /\ current_piece' = held_piece
                     /\ next_piece' = next_piece
             /\ rotation' = 0
             /\ piece_position' = SpawnOffset(current_piece')
             /\ UNCHANGED <<board, score, lines_cleared, level>>
       /\ (held_piece # None => held_piece' # None)]_vars

\* the held S piece and the L piece in play have been exchanged
C8_Witness ==
    /\ op = "hold_piece"
    /\ ret = TRUE
    /\ calls = 1
    /\ board # EmptyBoard
    /\ held_piece = "L"
    /\ current_piece = "S"
    /\ next_piece = "J"

\* C9: rotate_piece returns False and changes nothing when the next rotation
\* state is invalid at the current offset and at the offsets x-1, x+1, x-2, x+2.
C9_RotateBlocked ==
    [][(Call("rotate_piece") /\ ValidCandidates = {}) =>
          /\ ret' = FALSE
          /\ UNCHANGED GameVars]_vars

\* a rotation has failed
C9_Witness ==
    /\ op = "rotate_piece"
    /\ ret = FALSE
    /\ ValidCandidates = {}

\* C10: a successful rotate_piece sets the rotation index to the next one and
\* x to x + d, d the first of 0, -1, +1, -2, +2 at which the rotated shape is
\* valid; y and everything else are unchanged.
C10_RotateFirstValid ==
    [][Call("rotate_piece") =>
          /\ ret' = (ValidCandidates # {})
          /\ (ret' = TRUE =>
                /\ rotation' = NextRotation
                /\ piece_position' =
                      [x |-> piece_position.x + Candidates[Min(ValidCandidates)],
                       y |-> piece_position.y]
                /\ UNCHANGED <<board, score, lines_cleared, level, current_piece,
                               next_piece, held_piece, can_hold>>)]_vars

\* the I piece above column 3, blocked there, has been kicked one column to
\* the left, where the column to the right was free as well
C10_Witness ==
    /\ op = "rotate_piece"
    /\ ret = TRUE
    /\ current_piece = "I"
    /\ rotation = 1
    /\ piece_position = [x |-> 2, y |-> 1]
    /\ board[5][4] = 1
    /\ Fits(board, "I", 1, 4, 1)

\* what C11 says of a call move_piece(dx, dy)
C11_After(dx, dy) ==
    /\ raised' = NoError
    /\ ret' = Fits(board, current_piece, rotation,
                   piece_position.x + dx, piece_position.y + dy)
    /\ piece_position' =
          IF ret' THEN [x |-> piece_position.x + dx, y |-> piece_position.y + dy]
                  ELSE piece_position
    /\ UNCHANGED <<rotation, board, score, lines_cleared, level, current_piece,
                   next_piece, held_piece, can_hold>>

\* C11: move_piece(dx, dy) returns True and sets the offset to (x + dx, y + dy)
\* exactly when the current shape is valid there, and returns False and keeps
\* the offset otherwise; nothing else changes and nothing is raised.
C11_MovePiece == [][Call("move_piece") => C11_After(args'[1], args'[2])]_vars

\* a move to the right has failed at a wall or at an occupied cell, two calls in
C11_Witness ==
    /\ op = "move_piece"
    /\ args = <<1, 0>>
    /\ ret = FALSE
    /\ calls = 2
    /\ ~Fits(board, current_piece, rotation, piece_position.x + 1, piece_position.y)

\* C12: get_ghost_position changes no field of the game, and called twice in a
\* row it returns the same pair.
C12_GhostNoMutation ==
    [][Call("get_ghost_position") =>
          /\ raised' = NoError
          /\ UNCHANGED GameVars
          /\ (op = "get_ghost_position" => ret' = ret)]_vars

\* get_ghost_position has returned the bottom row for the I piece of a new
\* game, after a first call that changed nothing
C12_Witness ==
    /\ op = "get_ghost_position"
    /\ calls = 2
    /\ ret = <<3, 19>>
    /\ board = EmptyBoard
    /\ current_piece = "I"
    /\ piece_position = [x |-> 3, y |-> 0]
    /\ score = 0

\* the offset at which hard_drop, called now, writes the current piece
LandingOffset == DropLoop(Self, drop_piece(Self), 0).self.piece_position

\* C13: the pair get_ghost_position returns is the offset at which a hard_drop
\* called next writes the current piece into the board.  Stated for the states
\* in which no hard_drop has returned -1 or raised.
C13_GhostIsLanding ==
    (~game_over /\ raised = NoError) =>
        get_ghost_position(Self).ret = <<LandingOffset.x, LandingOffset.y>>

\* C18: as long as no hard_drop has returned -1 (or raised), the current piece
\* at its offset and rotation is in a valid position.
C18_CurrentPieceValid ==
    (~game_over /\ raised = NoError) =>
        Fits(board, current_piece, rotation, piece_position.x, piece_position.y)

\* C14: in every state level = floor(lines_cleared / 10) + 1 >= 1 and the score
\* is not negative; no call makes lines_cleared or the score smaller.
C14_LevelAndMonotone ==
    /\ [](/\ level = (lines_cleared \div 10) + 1
          /\ level >= 1
          /\ score >= 0)
    /\ [][lines_cleared' >= lines_cleared /\ score' >= score]_vars

\* a hard drop has cleared four rows and taken the game from level 1 to level 2
C14_Witness ==
    /\ op = "hard_drop"
    /\ raised = NoError
    /\ ret = 4
    /\ lines_cleared = 12
    /\ level = 2
    /\ score = 1360 + 32 + 1200

\* what C16 says of a hard drop of k rows that fills n rows
C16_After(k, n) ==
    n > 4 => /\ raised' = NoError
             /\ score' = score + 2 * k + 1200 * level

\* C16: a placement that clears more than 4 rows at once adds 1200 * level to
\* the score, as for 4 rows, and raises nothing.
C16_ClampToFour ==
    [][Call("hard_drop") => C16_After(DropSteps, FullCount(Landed))]_vars

\* C19: after a placement no row of the board is full; so a placement clears
\* at most 4 rows and the lookup in the table of points raises nothing.
C19_NoFullRowLeft ==
    [][Call("hard_drop") =>
          /\ raised' = NoError
          /\ \A r \in 1..Len(board') : ~IsFull(board'[r])]_vars

\* the number of times the loop of hard_drop, called now, moves the piece down
HardDropSteps == DropLoop(Self, drop_piece(Self), 0).drop_distance

\* the number of times the loop of get_ghost_position, called now, adds 1 to
\* ghost_y before it leaves
GhostSteps == GhostLoop(Self, piece_position.y) - piece_position.y

\* what C17 says of the loop of hard_drop, dl being what the loop gives, and of
\* the loop of get_ghost_position, ghost_y being what it leaves with
C17_Bounded(dl, ghost_y) ==
    /\ piece_position.y <= 19
    /\ dl.drop_distance \in 0..(19 - piece_position.y)
    /\ dl.self.piece_position =
          [x |-> piece_position.x, y |-> piece_position.y + dl.drop_distance]
    /\ (ghost_y - piece_position.y) \in 0..(20 - piece_position.y)

\* C17, as it holds: the loops of hard_drop and get_ghost_position end; each
\* step takes the piece one row down, a piece at row 20 is not valid, and so
\* the loops make at most 19 - y and 20 - y steps, y being the row of the
\* offset, which move_piece(0, -1) can make negative.
C17_LoopsTerminate ==
    C17_Bounded(DropLoop(Self, drop_piece(Self), 0), GhostLoop(Self, piece_position.y))

\* an I piece moved up once, above an empty board: 21 steps of ghost_y
C17_Witness ==
    /\ op = "move_piece"
    /\ args = <<0, -1>>
    /\ ret = TRUE
    /\ current_piece = "I"
    /\ rotation = 0
    /\ piece_position.y = -1
    /\ GhostSteps = 21
    /\ HardDropSteps = 20

\* C17: the loops of hard_drop and get_ghost_position end after at most 20
\* iterations.
C17_AtMostTwenty ==
    /\ HardDropSteps <= 20
    /\ GhostSteps <= 20

-----------------------------------------------------------------------------
(* _clear_lines() on its own, on boards that are given rather than played.  *)

\* a row that is neither empty nor full and tells its index r: the first
\* (r % 5) + 1 cells and r \div 5 of the cells 5..8 are occupied, and cell 9
\* is occupied when the row is marked
PartialRow(r, marked) ==
    [c \in 1..BOARD_WIDTH |->
        IF \/ c <= (r % 5) + 1
           \/ (c >= 6 /\ c <= 5 + (r \div 5))
           \/ (c = BOARD_WIDTH /\ marked)
        THEN 1 ELSE 0]

\* the rows that may be marked
MarkedRows == {3, 4, 6, 8, 9, 10}

\* the board whose rows in full are full and whose other rows are partial
BoardWith(full, marks) ==
    [r \in 1..BOARD_HEIGHT |->
        IF (r - 1) \in full
        THEN [c \in 1..BOARD_WIDTH |-> 1]
        ELSE PartialRow(r - 1, (r - 1) \in marks)]

\* the boards _clear_lines is called on: exactly rows 5 and 7 are full
ClearInputs == {BoardWith({5, 7}, marks) : marks \in SUBSET MarkedRows}

ClearInit ==
    /\ board \in ClearInputs
    /\ score = 0
    /\ lines_cleared = 0
    /\ level = 1
    /\ current_piece = "I"
    /\ next_piece = "O"
    /\ held_piece = None
    /\ piece_position = SpawnPosition("I")
    /\ rotation = 0
    /\ can_hold = TRUE
    /\ op = "__init__"
    /\ args = <<>>
    /\ ret = None
    /\ raised = NoError
    /\ game_over = FALSE
    /\ held_since_spawn = FALSE
    /\ calls = 0
    /\ NoRelay

\* a call of _clear_lines()
ClearLines ==
    /\ calls < MaxCalls
    /\ UNCHANGED RelayVars
    /\ board' = _clear_lines(board).board
    /\ ret' = _clear_lines(board).ret
    /\ op' = "_clear_lines"
    /\ args' = <<>>
    /\ raised' = NoError
    /\ calls' = calls + 1
    /\ UNCHANGED <<score, lines_cleared, level, current_piece, next_piece, held_piece,
                   piece_position, rotation, can_hold, game_over, held_since_spawn>>

ClearNext == ClearLines

ClearSpec == ClearInit /\ [][ClearNext]_vars

\* C15: _clear_lines on a board where exactly rows 5 and 7 are full and every
\* other row is partial returns 2, leaves rows 0 and 1 empty and moves every
\* row that was partial to its index plus 2 (as far as that is on the board).
C15_ClearRows5And7 ==
    [][(Call("_clear_lines") /\ board \in ClearInputs) =>
          /\ ret' = 2
          /\ board'[1] = EmptyRow
          /\ board'[2] = EmptyRow
          /\ \A r \in (0..17) \ {5, 7} : board'[r + 3] = board[r + 1]]_vars

-----------------------------------------------------------------------------
(* The relay of main.py: the handlers of WebSocketDisconnect of the        *)
(* connections of one room.  The event loop runs one coroutine at a time;  *)
(* a coroutine gives way only at an await that suspends, so what lies      *)
(* between two awaits is one step.  In the handler the awaits that can     *)
(* suspend are the send_json calls of broadcast_to_room.                   *)

\* the room id
Room == "room"

\* the lists of connections a room can hold: connections in the order they joined
RoomLists ==
    {q \in UNION {[1..n -> Connections] : n \in 1..MaxConnections} :
        \A i, j \in DOMAIN q : i # j => q[i] # q[j]}

\* the connections in list q
InList(q) == {q[i] : i \in DOMAIN q}

\* rooms[room_id] as the for loop of broadcast_to_room sees it: the list object
\* it took from active_rooms, which is empty once the room has been deleted
ListOf(rooms) == IF Room \in DOMAIN rooms THEN rooms[Room] ELSE <<>>

\* active_rooms[room_id].remove(websocket)
RemoveFrom(q, c) == SelectSeq(q, LAMBDA x : x # c)

\* del active_rooms[room_id]
Deleted(rooms) == [r \in DOMAIN rooms \ {Room} |-> rooms[r]]

\* "Clean up empty rooms" in the handler of connection c, active_rooms being rooms
CleanUp(c, rooms) ==
    IF Room \notin DOMAIN rooms
    THEN \* len(active_rooms[room_id]) raises KeyError
         /\ pc' = [pc EXCEPT ![c] = "KeyError"]
         /\ active_rooms' = rooms
         /\ UNCHANGED <<game_states, iter>>
    ELSE IF Len(rooms[Room]) = 0
         THEN /\ active_rooms' = Deleted(rooms)
              /\ game_states' = game_states \ {Room}
              /\ pc' = [pc EXCEPT ![c] = "done"]
              /\ UNCHANGED iter
         ELSE /\ active_rooms' = rooms
              /\ pc' = [pc EXCEPT ![c] = "done"]
              /\ UNCHANGED <<game_states, iter>>

\* the for loop of broadcast_to_room in the handler of connection c, after it
\* has taken i elements: it takes the next element and awaits send_json, or it
\* ends, broadcast_to_room returns and the handler goes on
ForLoop(c, rooms, i) ==
    IF i < Len(ListOf(rooms))
    THEN /\ active_rooms' = rooms
         /\ pc' = [pc EXCEPT ![c] = "send_json"]
         /\ iter' = [iter EXCEPT ![c] = i + 1]
         /\ UNCHANGED game_states
    ELSE CleanUp(c, rooms)

\* the game is not part of the relay
EngineVars ==
    <<board, score, lines_cleared, level, current_piece, next_piece, held_piece,
      piece_position, rotation, can_hold, op, args, ret, raised, game_over,
      held_since_spawn, calls>>

\* receive_text raises WebSocketDisconnect in the endpoint of connection c: the
\* handler runs up to its first send_json, or to its end
Disconnect(c) ==
    /\ pc[c] = "receive_text"
    /\ IF Room \notin DOMAIN active_rooms
       THEN /\ pc' = [pc EXCEPT ![c] = "KeyError"]
            /\ UNCHANGED <<active_rooms, game_states, iter>>
       ELSE IF c \notin InList(active_rooms[Room])
            THEN /\ pc' = [pc EXCEPT ![c] = "ValueError"]
                 /\ UNCHANGED <<active_rooms, game_states, iter>>
            ELSE ForLoop(c, [active_rooms EXCEPT ![Room] = RemoveFrom(@, c)], 0)
    /\ UNCHANGED EngineVars

\* the send_json awaited in the handler of connection c returns or raises
\* (what it raises is swallowed): the for loop goes on
SendJsonReturns(c) ==
    /\ pc[c] = "send_json"
    /\ ForLoop(c, active_rooms, iter[c])
    /\ UNCHANGED EngineVars

\* a room with its connections, every one of them waiting in receive_text; the
\* room is a key of game_states when it was made by create_room
RelayInit ==
    /\ Is(NewGame("I", "O"))
    /\ op = "__init__"
    /\ args = <<>>
    /\ ret = None
    /\ raised = NoError
    /\ game_over = FALSE
    /\ held_since_spawn = FALSE
    /\ calls = 0
    /\ \E q \in RoomLists :
          /\ active_rooms = [r \in {Room} |-> q]
          /\ pc = [c \in Connections |->
                      IF c \in InList(q) THEN "receive_text" ELSE "absent"]
    /\ game_states \in {{}, {Room}}
    /\ iter = [c \in Connections |-> 0]

RelayNext ==
    \/ \E c \in Connections : Disconnect(c)
    \/ \E c \in Connections : SendJsonReturns(c)

RelaySpec == RelayInit /\ [][RelayNext]_vars

\* C20: whatever the interleaving of the disconnect handlers of the connections
\* of a room, no handler raises, and once every connection of the room has
\* disconnected the room id is a key neither of active_rooms nor of game_states.
C20_DisconnectHandlers ==
    /\ \A c \in Connections : pc[c] \notin {"KeyError", "ValueError"}
    /\ (\A c \in Connections : pc[c] \notin {"receive_text", "send_json"})
          => (Room \notin DOMAIN active_rooms /\ Room \notin game_states)

====
